---------------------------- MODULE Spec2Model ----------------------------
(***************************************************************************)
(* A model of reflac (src/src/main.rs): the TRACKINFO parser               *)
(* (parse_trackinfo) and the pipeline of run(): input resolution, track    *)
(* mapping, cover lookup, output planning and the bounded pool of          *)
(* decode/encode jobs followed by the ReplayGain pass.                     *)
(*                                                                         *)
(* Text is modelled as a sequence of tokens.  A token is one character,    *)
(* except that each of the thirteen field names is a single token.         *)
(* An Option<T> is a sequence of length at most one: None is <<>> and      *)
(* Some(x) is <<x>>.                                                       *)
(***************************************************************************)
EXTENDS Integers, Sequences, FiniteSets, TLC

VARIABLES
    pc,                 \* position of the control thread
    palette,            \* the field names the metadata file is written with
    line,               \* parse_trackinfo: the line the loop body last processed
    nread,              \* parse_trackinfo: number of lines read so far
    tags,               \* parse_trackinfo: Vec<Tag>, later the tags of run()
    global_tag,         \* parse_trackinfo: the running default
    mentioned,          \* history: the bracket indices read, in first-mention order
    idx,                \* run: position of the current `for tag in &tags` loop
    tmp_count,          \* work_dir: unique names allocated so far
    inputs_root,        \* run: HashMap input string -> root path
    inputs_flac,        \* run: HashMap input string -> track container
    input_map_roots,    \* run: HashMap track -> root path
    input_map_flacs,    \* run: HashMap track -> track container
    source_map,         \* run: HashMap track -> source file
    covers,             \* run: HashMap cover string -> image path
    cover_map,          \* run: HashMap track -> image path
    padding,            \* run: digits of the largest track number
    album_path,         \* run: the album directory
    discs,              \* run: disc numbers whose directory exists
    process_cnt,        \* run: available_parallelism()
    fill_left,          \* run: iterations the initial fill loop still has to make
    process_next,       \* run: VecDeque of the tags not yet launched
    process_working,    \* run: VecDeque of the children launched and not yet waited on
    out_paths,          \* run: output paths of the jobs launched
    get_input_calls,    \* history: arguments of the get_input calls
    search_input_calls, \* history: the search_input calls, as <<input string, argument>>
    get_cover_calls,    \* history: the get_cover calls, as <<cover string, argument>>
    created_dirs,       \* history: directories made by fs::create_dir
    launched,           \* history: track numbers in the order recompress was called
    waited,             \* history: the children waited on, with their exit statuses
    replay_gain_calls,  \* history: argument lists of the add_replay_gain calls
    work_dir_removals,  \* history: number of times Drop for TempDir removed work_dir
    call,               \* a function called on its own: its name and arguments
    returned            \* what that call returned

parseVars == <<palette, line, nread, global_tag, mentioned>>

resolveVars ==
    <<tmp_count, inputs_root, inputs_flac, input_map_roots, input_map_flacs,
      get_input_calls, search_input_calls>>

coverVars == <<covers, cover_map, get_cover_calls>>

planVars == <<padding, album_path, discs, created_dirs>>

poolVars ==
    <<process_cnt, fill_left, process_next, process_working, out_paths,
      launched, waited, replay_gain_calls>>

runVars == <<idx, resolveVars, source_map, coverVars, planVars, poolVars>>

fnVars == <<call, returned>>

vars == <<pc, tags, parseVars, runVars, work_dir_removals, fnVars>>

---------------------------------------------------------------------------
(* Bounds of the model.                                                    *)

\* A metadata file has at most MaxLines lines.
MaxLines == 4

\* run() is started on metadata files of at most MaxTracks track records.
MaxTracks == 3

\* available_parallelism() is at most MaxUnits.
MaxUnits == 2

\* Tag::output_path is called with a padding of at most MaxPadding.
MaxPadding == 3

\* get_track is called on containers of at most MaxEntries entries.
MaxEntries == 2

---------------------------------------------------------------------------
(* Option and text helpers.                                                *)

None == <<>>

Some(x) == <<x>>

DigitTokens == {"0", "1", "2", "3", "4", "5", "6", "7", "8", "9"}

IsDigit(t) == t \in DigitTokens

DigitValue(t) ==
    CASE t = "0" -> 0 [] t = "1" -> 1 [] t = "2" -> 2 [] t = "3" -> 3
      [] t = "4" -> 4 [] t = "5" -> 5 [] t = "6" -> 6 [] t = "7" -> 7
      [] t = "8" -> 8 [] t = "9" -> 9

\* str::parse::<usize>() of a run of decimal digits.
RECURSIVE ParseUsize(_)
ParseUsize(ds) ==
    IF ds = <<>> THEN 0
    ELSE 10 * ParseUsize(SubSeq(ds, 1, Len(ds) - 1)) + DigitValue(ds[Len(ds)])

IsWhite(t) == t = " "

\* str::trim(): surrounding whitespace removed.
RECURSIVE Trim(_)
Trim(s) ==
    IF s = <<>> THEN s
    ELSE IF IsWhite(s[1]) THEN Trim(Tail(s))
    ELSE IF IsWhite(s[Len(s)]) THEN Trim(SubSeq(s, 1, Len(s) - 1))
    ELSE s

---------------------------------------------------------------------------
(* Tag and the field regular expressions of parse_trackinfo.               *)

\* The field names in the order of the if / else-if chain.
Fields ==
    <<"INPUT", "TITLE", "ARTIST", "LYRICIST", "COMPOSER", "ARRANGER", "ALBUM",
      "DISC", "GENRE", "DATE", "LABEL", "COMMENT", "COVER">>

FieldNames == {Fields[i] : i \in 1..Len(Fields)}

\* The member of Tag a field's branch assigns.
FieldKey(F) ==
    CASE F = "INPUT" -> "input" [] F = "TITLE" -> "title"
      [] F = "ARTIST" -> "artist" [] F = "LYRICIST" -> "lyricist"
      [] F = "COMPOSER" -> "composer" [] F = "ARRANGER" -> "arranger"
      [] F = "ALBUM" -> "album" [] F = "DISC" -> "disc"
      [] F = "GENRE" -> "genre" [] F = "DATE" -> "date"
      [] F = "LABEL" -> "label" [] F = "COMMENT" -> "comment"
      [] F = "COVER" -> "cover"

TagKeys ==
    {"input", "title", "artist", "lyricist", "composer", "arranger", "album",
     "track", "disc", "genre", "date", "label", "comment", "cover"}

\* Tag::new(): every member None.
Tag_new == [k \in TagKeys |-> None]

\* The index just past the run of digits that starts at i (i itself if none).
RECURSIVE DigitRunEnd(_, _)
DigitRunEnd(s, i) ==
    IF i <= Len(s) /\ IsDigit(s[i]) THEN DigitRunEnd(s, i + 1) ELSE i

\* The tail of each regex after "=": (.*) for the text fields, (\d+) for DISC,
\* (\d\d\d\d)-(\d\d)-(\d\d) for DATE.  None of them is anchored at the end.
ValueMatches(F, rest) ==
    CASE F = "DISC" -> DigitRunEnd(rest, 1) > 1
      [] F = "DATE" ->
            /\ Len(rest) >= 10
            /\ \A i \in {1, 2, 3, 4, 6, 7, 9, 10} : IsDigit(rest[i])
            /\ rest[5] = "-"
            /\ rest[8] = "-"
      [] OTHER -> TRUE

\* The capture groups after the bracket index.
ValueGroups(F, rest) ==
    CASE F = "DISC" -> <<SubSeq(rest, 1, DigitRunEnd(rest, 1) - 1)>>
      [] F = "DATE" -> <<SubSeq(rest, 1, 4), SubSeq(rest, 6, 7), SubSeq(rest, 9, 10)>>
      [] OTHER -> <<rest>>

NoMatch == [matched |-> FALSE]

\* F(?:\[(\d+)\])?=... tried with F at position i of the line.
MatchAt(F, s, i) ==
    LET n == Len(s)
        e == DigitRunEnd(s, i + 2)
        bracketed ==
            /\ i + 1 <= n
            /\ s[i + 1] = "["
            /\ e > i + 2
            /\ e + 1 <= n
            /\ s[e] = "]"
            /\ s[e + 1] = "="
        plain == i + 1 <= n /\ s[i + 1] = "="
        rest == IF bracketed THEN SubSeq(s, e + 2, n) ELSE SubSeq(s, i + 2, n)
    IN  IF (bracketed \/ plain) /\ ValueMatches(F, rest)
        THEN [matched |-> TRUE,
              field |-> F,
              index |-> IF bracketed THEN Some(SubSeq(s, i + 2, e - 1)) ELSE None,
              groups |-> ValueGroups(F, rest)]
        ELSE NoMatch

\* Regex::captures: the leftmost match anywhere in the line.
RECURSIVE CapturesFrom(_, _, _)
CapturesFrom(F, s, i) ==
    IF i > Len(s) THEN NoMatch
    ELSE IF s[i] = F /\ MatchAt(F, s, i).matched THEN MatchAt(F, s, i)
    ELSE CapturesFrom(F, s, i + 1)

Captures(F, s) == CapturesFrom(F, s, 1)

\* The if / else-if chain: the first field, in the order of Fields, whose
\* regex finds a match in the line.
RECURSIVE DispatchFrom(_, _)
DispatchFrom(s, k) ==
    IF k > Len(Fields) THEN NoMatch
    ELSE IF Captures(Fields[k], s).matched THEN Captures(Fields[k], s)
    ELSE DispatchFrom(s, k + 1)

Dispatch(s) == DispatchFrom(s, 1)

TrimmedFields ==
    {"TITLE", "ARTIST", "LYRICIST", "COMPOSER", "ARRANGER", "ALBUM", "GENRE",
     "LABEL", "COMMENT"}

\* The value a branch stores: INPUT and COVER keep the capture as it is, the
\* other text fields trim it, DISC and DATE parse their digits.
StoredValue(caps) ==
    CASE caps.field \in TrimmedFields -> Trim(caps.groups[1])
      [] caps.field = "DISC" -> ParseUsize(caps.groups[1])
      [] caps.field = "DATE" ->
            <<ParseUsize(caps.groups[1]), ParseUsize(caps.groups[2]),
              ParseUsize(caps.groups[3])>>
      [] OTHER -> caps.groups[1]

\* The track number a bracketed line looks up: the DISC branch takes the
\* parsed disc value, every other branch parses the bracket index.
TargetTrack(caps) ==
    IF caps.field = "DISC" THEN ParseUsize(caps.groups[1])
    ELSE ParseUsize(caps.index[1])

\* A lookup that finds no record, so that every bracketed line pushes one.
FindTag_never(ts, track) == 0

\* tags.iter_mut().find(|t| t.track == track): the first such position, or 0.
FindTag(ts, track) ==
    IF \E i \in 1..Len(ts) : ts[i].track = Some(track)
    THEN CHOOSE i \in 1..Len(ts) :
            /\ ts[i].track = Some(track)
            /\ \A j \in 1..(i - 1) : ts[j].track # Some(track)
    ELSE 0

\* NewRecord built on Tag::new() in place of the clone of the running default.
NewRecord_fresh(g, track, key, v) ==
    [Tag_new EXCEPT !["track"] = Some(track), ![key] = Some(v)]

\* The else branch of the lookup: a clone of the running default, with the
\* track and the line's field set.
NewRecord(g, track, key, v) ==
    [g EXCEPT !["track"] = Some(track), ![key] = Some(v)]

\* A bracketed line: update the record found, or push a new one.
ApplyBracketed(ts, g, track, key, v) ==
    LET i == FindTag(ts, track)
    IN  IF i # 0 THEN [ts EXCEPT ![i][key] = Some(v)]
        ELSE Append(ts, NewRecord(g, track, key, v))

\* An unbracketed line: set the field of the running default.
\* A global line that leaves the running default as it was.
ApplyGlobal_drop(g, key, v) == g

ApplyGlobal(g, key, v) == [g EXCEPT ![key] = Some(v)]

\* The body of one loop iteration, given what the if / else-if chain captured.
ApplyCaptures(ts, g, caps, s) ==
    IF caps.matched
    THEN IF caps.index # None
         THEN [tags |-> ApplyBracketed(ts, g, TargetTrack(caps),
                                       FieldKey(caps.field), StoredValue(caps)),
               global_tag |-> g,
               err |-> FALSE]
         ELSE [tags |-> ts,
               global_tag |-> ApplyGlobal(g, FieldKey(caps.field), StoredValue(caps)),
               err |-> FALSE]
    ELSE [tags |-> ts, global_tag |-> g, err |-> s # <<>>]

\* One iteration of the loop over the lines of the file.
ProcessLine(ts, g, s) == ApplyCaptures(ts, g, Dispatch(s), s)

---------------------------------------------------------------------------
(* The lines a metadata file is drawn from.                                *)

Render(F, index, value) ==
    <<F>> \o (IF index = None THEN <<>> ELSE <<"[">> \o index[1] \o <<"]">>)
          \o <<"=">> \o value

IndexTexts == {None, Some(<<"1">>), Some(<<"2">>)}

ValueTexts(F) ==
    CASE F = "DISC" -> {<<"1">>, <<"2">>}
      [] F = "DATE" -> {<<"2", "0", "2", "0", "-", "0", "1", "-", "0", "2">>}
      [] F = "TITLE" -> {<<"a">>, <<"b">>}
      [] OTHER -> {<<"a">>}

PlainLines ==
    {Render(F, ix, v) : <<F, ix, v>> \in
        UNION {{<<F, ix, v>> : ix \in IndexTexts, v \in ValueTexts(F)} : F \in FieldNames}}

OddLines ==
    { <<>>,
      <<"x">>,
      <<"DISC", "=", "a">>,
      <<"TITLE", "=", " ", "a", " ">>,
      <<"COMMENT", "[", "1", "]", "=", "s", " ", "TITLE", "=", "b">>,
      <<"ALBUM", "[", "0", "2", "]", "=", "b">>,
      <<"x", "TITLE", "=", "a">>,
      <<"DISC", "=", "1", "x">>,
      <<"INPUT", "=", " ", "a", " ">> }

Lines == PlainLines \cup OddLines

\* What the chain captures on each of these lines, computed once.
Captured == [s \in Lines |-> Dispatch(s)]

\* The field names that occur in a line.
LineFields(s) == {s[i] : i \in 1..Len(s)} \cap FieldNames

\* A metadata file is written with TITLE and one other field name.
Palettes == {{"TITLE", F} : F \in FieldNames}

---------------------------------------------------------------------------
(* Maps, paths and the planning functions of run().                        *)
(* A path is a sequence of components, each component a text.              *)

\* HashMap::new(), insert, contains_key.
EmptyMap == <<>>

MapInsert(m, k, v) == [x \in DOMAIN m \cup {k} |-> IF x = k THEN v ELSE m[x]]

\* A get that never finds the key.
MapGet_none(m, k) == None

\* HashMap::get: Some(value) or None.
MapGet(m, k) == IF k \in DOMAIN m THEN Some(m[k]) ELSE None

\* A contains that never finds the element.
Contains_never(v, x) == FALSE

\* Vec::contains.
Contains(v, x) == \E i \in 1..Len(v) : v[i] = x

\* A lookup that never finds the key.
ContainsKey_never(m, k) == FALSE

ContainsKey(m, k) == k \in DOMAIN m

Min(a, b) == IF a <= b THEN a ELSE b

DigitToken(d) ==
    CASE d = 0 -> "0" [] d = 1 -> "1" [] d = 2 -> "2" [] d = 3 -> "3"
      [] d = 4 -> "4" [] d = 5 -> "5" [] d = 6 -> "6" [] d = 7 -> "7"
      [] d = 8 -> "8" [] d = 9 -> "9"

\* usize::to_string().
RECURSIVE Decimal(_)
Decimal(n) ==
    IF n < 10 THEN <<DigitToken(n)>>
    ELSE Decimal(n \div 10) \o <<DigitToken(n % 10)>>

\* A number printed without padding.
ZeroPad_none(ds, width) == ds

\* format!("{:0fill$}", n, fill = width).
RECURSIVE ZeroPad(_, _)
ZeroPad(ds, width) == IF Len(ds) >= width THEN ds ELSE ZeroPad(<<"0">> \o ds, width)

\* str::replace("/", "_").
ReplaceSlash(s) == [i \in 1..Len(s) |-> IF s[i] = "/" THEN "_" ELSE s[i]]

\* Tag::output_path(padding).
output_path(tag, pad) ==
    LET ret == IF tag.disc # None
               THEN << <<"Disc", " ">> \o Decimal(tag.disc[1]) >>
               ELSE <<>>
        number == ZeroPad(Decimal(tag.track[1]), pad)
        name ==
            IF tag.artist # None
            THEN IF tag.title # None
                 THEN number \o <<".", " ">> \o tag.artist[1] \o <<" ", "-", " ">>
                             \o tag.title[1] \o <<".", "flac">>
                 ELSE number \o <<".", " ">> \o tag.artist[1] \o <<".", "flac">>
            ELSE IF tag.title # None
                 THEN number \o <<".", " ">> \o tag.title[1] \o <<".", "flac">>
                 ELSE number \o <<".", "flac">>
    IN  ret \o <<ReplaceSlash(name)>>

\* The padding of run(): the digits of the largest track number.
MaxTrack(ts) ==
    CHOOSE m \in {ts[i].track[1] : i \in 1..Len(ts)} :
        \A i \in 1..Len(ts) : ts[i].track[1] <= m

PaddingOf(ts) == Len(Decimal(MaxTrack(ts)))

\* get_album_name: the counts per album value, and the values the loop over
\* the HashMap can end with: any one whose count no other exceeds.
AlbumCount(ts, album) == Cardinality({i \in 1..Len(ts) : ts[i].album = Some(album)})

\* Any album value of the tags, whatever its count.
AlbumNames_any(ts) == {ts[i].album[1] : i \in {j \in 1..Len(ts) : ts[j].album # None}}

AlbumNames(ts) ==
    LET albums == {ts[i].album[1] : i \in {j \in 1..Len(ts) : ts[j].album # None}}
    IN  {a \in albums : \A b \in albums : AlbumCount(ts, b) <= AlbumCount(ts, a)}

\* A fill of min(process_next.len(), process_cnt) jobs, without the - 1.
FillCount_full(len, cnt) == Min(len, cnt)

\* The initial fill of the pool: min(process_next.len(), process_cnt) - 1.
FillCount(len, cnt) == Min(len, cnt) - 1

\* pop_back in place of pop_front.
PopFront_back(q) == [job |-> q[Len(q)], rest |-> SubSeq(q, 1, Len(q) - 1)]

\* VecDeque::pop_front: the element taken and the rest.
PopFront(q) == [job |-> Head(q), rest |-> Tail(q)]

\* The parser run over a whole file.
RECURSIVE ParseFrom(_, _, _)
ParseFrom(ts, g, file) ==
    IF file = <<>> THEN [tags |-> ts, err |-> FALSE]
    ELSE LET r == ProcessLine(ts, g, Head(file))
         IN  IF r.err THEN [tags |-> <<>>, err |-> TRUE]
             ELSE ParseFrom(r.tags, r.global_tag, Tail(file))

parse_trackinfo(file) == ParseFrom(<<>>, Tag_new, file)

---------------------------------------------------------------------------
(* parse_trackinfo as a state machine: one step per line.                  *)

\* The bracket index of a line as the matching regex captured it, if any.
BracketIndex(caps) ==
    IF caps.matched /\ caps.index # None THEN Some(ParseUsize(caps.index[1])) ELSE None

Mention(m, caps) ==
    IF BracketIndex(caps) = None \/ \E i \in 1..Len(m) : m[i] = BracketIndex(caps)[1]
    THEN m
    ELSE Append(m, BracketIndex(caps)[1])

\* run() has not started: its locals hold nothing.
RunIdle ==
    /\ idx = 1
    /\ tmp_count = 0
    /\ inputs_root = EmptyMap
    /\ inputs_flac = EmptyMap
    /\ input_map_roots = EmptyMap
    /\ input_map_flacs = EmptyMap
    /\ source_map = EmptyMap
    /\ covers = EmptyMap
    /\ cover_map = EmptyMap
    /\ padding = 0
    /\ album_path = <<>>
    /\ discs = <<>>
    /\ process_cnt = 0
    /\ fill_left = 0
    /\ process_next = <<>>
    /\ process_working = <<>>
    /\ out_paths = <<>>
    /\ get_input_calls = <<>>
    /\ search_input_calls = <<>>
    /\ get_cover_calls = <<>>
    /\ created_dirs = <<>>
    /\ launched = <<>>
    /\ waited = <<>>
    /\ replay_gain_calls = <<>>
    /\ work_dir_removals = 0

\* No function is called on its own.
NoCall == call = <<>> /\ returned = <<>>

Init ==
    /\ pc = "parse"
    /\ palette \in Palettes
    /\ line = <<>>
    /\ nread = 0
    /\ tags = <<>>
    /\ global_tag = Tag_new
    /\ mentioned = <<>>
    /\ RunIdle
    /\ NoCall

\* The step the loop body takes on line s.
Reads(s) ==
    LET r == ApplyCaptures(tags, global_tag, Captured[s], s)
    IN  /\ pc = "parse"
        /\ nread < MaxLines
        /\ LineFields(s) \subseteq palette
        /\ line' = s
        /\ nread' = nread + 1
        /\ tags' = IF r.err THEN <<>> ELSE r.tags
        /\ global_tag' = r.global_tag
        /\ mentioned' = Mention(mentioned, Captured[s])
        /\ pc' = IF r.err THEN "invalid_trackinfo" ELSE "parse"
        /\ UNCHANGED <<palette, runVars, work_dir_removals, fnVars>>

ReadLine == \E s \in Lines : Reads(s)

\* The file is exhausted: Ok(tags).
EndOfFile ==
    /\ pc = "parse"
    /\ pc' = "parsed"
    /\ UNCHANGED <<tags, parseVars, runVars, work_dir_removals, fnVars>>

Next == ReadLine \/ EndOfFile

Spec == Init /\ [][Next]_vars

---------------------------------------------------------------------------
(* The metadata files run() is started on.                                 *)

FullHeader ==
    <<Render("ALBUM", None, <<"a">>), Render("DISC", None, <<"2">>),
      Render("COVER", None, <<"c">>)>>

Headers == {<<>>, <<Render("ALBUM", None, <<"a">>)>>, FullHeader}

\* Global lines between two tracks, which change album, disc and cover for
\* the tracks after them.
Interlude ==
    <<Render("ALBUM", None, <<"b">>), Render("DISC", None, <<"1">>),
      Render("COVER", None, <<"d">>)>>

\* The tracks 1..n in ascending order, all from the input a.
OneInput(body) ==
    \A i \in 1..Len(body) : body[i] = Render("INPUT", Some(Decimal(i)), <<"a">>)

\* A header and the lines of the tracks; for the full header and tracks of
\* one input, also with the interlude before the second or before the last
\* track.
Arranged(h, body) ==
    {h \o body} \cup
    (IF h = FullHeader /\ OneInput(body)
     THEN {h \o SubSeq(body, 1, k - 1) \o Interlude \o SubSeq(body, k, Len(body)) :
            k \in {2, Len(body)} \cap 2..Len(body)}
     ELSE {})

\* The lines that create the record of track k: from the input a or with a
\* title only, and track 2 also from a second input b.
TrackLines(k) ==
    { Render("INPUT", Some(Decimal(k)), <<"a">>),
      Render("TITLE", Some(Decimal(k)), <<"a">>) } \cup
    (IF k = 2 THEN {Render("INPUT", Some(Decimal(k)), <<"b">>)} ELSE {})

\* The tracks 1..n in ascending or in descending order.
TrackOrders(n) == {[i \in 1..n |-> i], [i \in 1..n |-> n + 1 - i]}

\* A file whose tracks take their input from a global line, with two lines
\* for track 3 and one for track 12.
Repeated ==
    <<Render("ALBUM", None, <<"a">>), Render("INPUT", None, <<"a">>),
      Render("TITLE", Some(<<"3">>), <<"a">>), Render("ARTIST", Some(<<"3">>), <<"a">>),
      Render("TITLE", Some(<<"1", "2">>), <<"a">>)>>

RunFiles ==
    {Repeated} \cup
    UNION {UNION {UNION {Arranged(h, body) : body \in
                    {b \in [1..n -> UNION {TrackLines(k) : k \in 1..n}] :
                        \A i \in 1..n : b[i] \in TrackLines(order[i])}} :
                  order \in TrackOrders(n)} :
           <<h, n>> \in Headers \X (0..MaxTracks)}

\* What parse_trackinfo returns on them.
RunTags == {parse_trackinfo(f).tags : f \in {g \in RunFiles : ~parse_trackinfo(g).err}}

---------------------------------------------------------------------------
(* The outcomes of the calls run() makes into the file system and the      *)
(* external tools: each is the set of results the environment can give.    *)

TmpPath(n) == << <<"tmp">>, Decimal(n) >>

\* get_input: the path itself when it is a directory, a fresh unique_subdir
\* when an archive was extracted on the way, or an error.
get_input(path, n) ==
    { [ok |-> TRUE, path |-> path, tmp |-> n],
      [ok |-> TRUE, path |-> TmpPath(n + 1), tmp |-> n + 1],
      [ok |-> FALSE, path |-> <<>>, tmp |-> n] }

\* What read_dir lists: a file with the extension flac, another file that
\* is no archive, a directory with its own listing, or a zip, rar or 7z file
\* with the exit status of its extractor and what it unpacks to.
FlacFile == [kind |-> "flac", extracts |-> TRUE, entries |-> <<>>]

OtherFile == [kind |-> "file", extracts |-> TRUE, entries |-> <<>>]

Directory(entries) == [kind |-> "dir", extracts |-> TRUE, entries |-> entries]

Archive(extracts, entries) == [kind |-> "archive", extracts |-> extracts, entries |-> entries]

\* The path of the i-th entry of the directory at path.
EntryPath(path, i) == path \o << <<"e">> \o Decimal(i) >>

\* The first loop of search_input finding nothing.
HasFlac_never(entries) == FALSE

\* The first loop of search_input finds a file with the extension flac.
HasFlac(entries) == \E i \in 1..Len(entries) : entries[i].kind = "flac"

\* search_input(path, tmp_dir) on a directory that lists the given entries;
\* st is the number of unique_subdir calls on tmp_dir so far and the
\* extract_archive calls in order: the archive, the directory it is
\* extracted into, and whether the extractor exited successfully.  SearchDirs is the second loop from entry
\* i on, SearchArchives the third: `?` on extract_archive returns its error,
\* the error of a recursive call is dropped and the loop goes on.
RECURSIVE SearchInput(_, _, _)
RECURSIVE SearchDirs(_, _, _, _)
RECURSIVE SearchArchives(_, _, _, _)
SearchInput(path, entries, st) ==
    IF HasFlac(entries) THEN [end |-> "ok", path |-> path, st |-> st]
    ELSE LET tree == SearchDirs(path, entries, 1, st)
         IN  IF tree.end = "ok" THEN tree
             ELSE SearchArchives(path, entries, 1, tree.st)

SearchDirs(path, entries, i, st) ==
    IF i > Len(entries) THEN [end |-> "none", path |-> <<>>, st |-> st]
    ELSE IF entries[i].kind = "dir"
         THEN LET tree == SearchInput(EntryPath(path, i), entries[i].entries, st)
              IN  IF tree.end = "ok" THEN tree
                  ELSE SearchDirs(path, entries, i + 1, tree.st)
         ELSE SearchDirs(path, entries, i + 1, st)

SearchArchives(path, entries, i, st) ==
    IF i > Len(entries) THEN [end |-> "NoFlacFilesFound", path |-> path, st |-> st]
    ELSE IF entries[i].kind = "archive"
         THEN LET new_tree == TmpPath(st.tmp + 1)
                  extracted ==
                      [tmp |-> st.tmp + 1,
                       extract_calls |->
                           Append(st.extract_calls,
                                  <<EntryPath(path, i), new_tree, entries[i].extracts>>)]
              IN  IF ~entries[i].extracts
                  THEN [end |-> "SubprocessError", path |-> <<>>, st |-> extracted]
                  ELSE LET tree == SearchInput(new_tree, entries[i].entries, extracted)
                       IN  IF tree.end = "ok" THEN tree
                           ELSE SearchArchives(path, entries, i + 1, tree.st)
         ELSE SearchArchives(path, entries, i + 1, st)

\* What read_dir lists in an input root of run(): a flac file, an archive of
\* one flac file, or nothing.
RunRoots == {<<FlacFile>>, <<Archive(TRUE, <<FlacFile>>)>>, <<>>}

\* search_input: the search of what the root lists.
search_input(root, n) ==
    { LET r == SearchInput(root, entries, [tmp |-> n, extract_calls |-> <<>>])
      IN  [ok |-> r.end = "ok", path |-> r.path, tmp |-> r.st.tmp] :
        entries \in RunRoots }

\* A run of digits without its leading zeros (one digit is always kept).
RECURSIVE StripZeros(_)
StripZeros(ds) == IF Len(ds) > 1 /\ Head(ds) = "0" THEN StripZeros(Tail(ds)) ELSE ds

\* usize::MAX on a 64-bit target, 18446744073709551615, as digits.
UsizeMaxDigits ==
    <<"1", "8", "4", "4", "6", "7", "4", "4", "0", "7", "3", "7", "0", "9", "5", "5",
      "1", "6", "1", "5">>

\* a > b for two runs of digits of the same length.
DigitsGreater(a, b) ==
    \E i \in 1..Len(a) :
        /\ DigitValue(a[i]) > DigitValue(b[i])
        /\ \A j \in 1..(i - 1) : a[j] = b[j]

\* parse::<usize>() returns Err on the digits ds: the number does not fit.
Overflows(ds) ==
    \/ Len(StripZeros(ds)) > Len(UsizeMaxDigits)
    \/ /\ Len(StripZeros(ds)) = Len(UsizeMaxDigits)
       /\ DigitsGreater(StripZeros(ds), UsizeMaxDigits)

\* TRACKFILE_RE.captures(name): with `.*?(\d+).*\.flac` the lazy prefix stops
\* at the first digit, (\d+) takes the whole run there, and `.flac` has to
\* follow somewhere after it.  Some(the run) or None.
TRACKFILE_RE(name) ==
    LET digits == {i \in 1..Len(name) : IsDigit(name[i])}
        first == CHOOSE i \in digits : \A j \in digits : i <= j
        end == DigitRunEnd(name, first)
    IN  IF digits # {} /\ \E p \in end..(Len(name) - 1) :
                              name[p] = "." /\ name[p + 1] = "flac"
        THEN Some(SubSeq(name, first, end - 1))
        ELSE None

\* The loop of get_track over the entries of read_dir, in listing order:
\* the first entry whose captured number is the track, InputTrackNotFound
\* when the entries are exhausted, or the panic of parse().unwrap().
RECURSIVE ScanEntries(_, _, _)
ScanEntries(track, container, entries) ==
    IF entries = <<>> THEN [ok |-> FALSE, path |-> <<>>, panic |-> FALSE]
    ELSE LET caps == TRACKFILE_RE(Head(entries))
         IN  IF caps = None THEN ScanEntries(track, container, Tail(entries))
             ELSE IF Overflows(caps[1])
                  THEN [ok |-> FALSE, path |-> <<>>, panic |-> TRUE]
             ELSE IF StripZeros(caps[1]) = Decimal(track)
                  THEN [ok |-> TRUE, path |-> container \o <<Head(entries)>>,
                        panic |-> FALSE]
             ELSE ScanEntries(track, container, Tail(entries))

\* What read_dir lists in a container of run(): nothing, or the file of
\* the track.
RunListings(track) == {<<>>, <<Decimal(track) \o <<".", "flac">>>>}

\* get_track: the scan of what the container lists.
get_track(track, container) ==
    {ScanEntries(track, container, entries) : entries \in RunListings(track)}

\* get_cover: the path itself, a fresh unique_subfile the picture was
\* exported to, PathDoesNotExist, or process::exit(1) when the export fails.
get_cover(path, n) ==
    { [end |-> "ok", path |-> path, tmp |-> n],
      [end |-> "ok", path |-> TmpPath(n + 1), tmp |-> n + 1],
      [end |-> "err", path |-> <<>>, tmp |-> n],
      [end |-> "exit1", path |-> <<>>, tmp |-> n + 1] }

\* The outcome of a job: the decoder's exit status, which nothing reads, and
\* what wait() on the encoder returns: a successful status, an unsuccessful
\* one, or an io::Error.
ExitStatuses == [decode_ok : BOOLEAN, encode : {"success", "failure", "error"}]

\* A wait whose exit status is not looked at.
AfterWait_ignore(status) == "pool"

\* What follows a wait: the loop goes on, todo!() panics, or ? returns Err.
AfterWait(status) ==
    CASE status.encode = "success" -> "pool"
      [] status.encode = "failure" -> "panic"
      [] status.encode = "error" -> "err"

\* The ways run() is left with work_dir in scope: Ok, Err through ?, or a
\* panic that unwinds.  process::exit in get_cover runs no destructor.
ScopeLeft == {"ok", "err", "panic"}

\* Drop for TempDir: remove_dir_all when the scope of work_dir is left.
ScopeExit(removals, next_pc) ==
    IF next_pc \in ScopeLeft THEN removals + 1 ELSE removals

\* main: the exit status of the process for each way run() ends.  A panic
\* prints the panic message and the process exits with status 101.
exit_status(end) ==
    CASE end = "ok" -> 0
      [] end = "err" -> 1
      [] end = "invalid_trackinfo" -> 1
      [] end = "exit1" -> 1
      [] end = "panic" -> 101

---------------------------------------------------------------------------
(* run() from the return of parse_trackinfo on.                            *)

InitRun ==
    /\ pc = "resolve"
    /\ tags \in RunTags
    /\ palette = {}
    /\ line = <<>>
    /\ nread = 0
    /\ global_tag = Tag_new
    /\ mentioned = <<>>
    /\ RunIdle
    /\ NoCall

Track(i) == tags[i].track[1]

\* Resolve inputs: a tag without input.
ResolveMissingInput ==
    /\ pc = "resolve"
    /\ idx <= Len(tags)
    /\ tags[idx].input = None
    /\ pc' = "panic"
    /\ UNCHANGED <<tags, parseVars, fnVars, runVars>>
    /\ work_dir_removals' = ScopeExit(work_dir_removals, pc')

\* Resolve inputs: the input string was resolved before.
ResolveCached ==
    /\ pc = "resolve"
    /\ idx <= Len(tags)
    /\ tags[idx].input # None
    /\ ContainsKey(inputs_root, tags[idx].input[1])
    /\ input_map_roots' = MapInsert(input_map_roots, Track(idx), inputs_root[tags[idx].input[1]])
    /\ input_map_flacs' = MapInsert(input_map_flacs, Track(idx), inputs_flac[tags[idx].input[1]])
    /\ idx' = idx + 1
    /\ UNCHANGED <<pc, tags, parseVars, fnVars, tmp_count, inputs_root, inputs_flac,
                   get_input_calls, search_input_calls, source_map, coverVars,
                   planVars, poolVars>>
    /\ work_dir_removals' = ScopeExit(work_dir_removals, pc')

\* Resolve inputs: get_input, then search_input, then the four inserts.
ResolveOpen ==
    /\ pc = "resolve"
    /\ idx <= Len(tags)
    /\ tags[idx].input # None
    /\ ~ContainsKey(inputs_root, tags[idx].input[1])
    /\ LET input == tags[idx].input[1]
           arg == << <<"parent">>, input >>
       IN  \E gi \in get_input(arg, tmp_count) :
           \E si \in search_input(gi.path, gi.tmp) :
              /\ get_input_calls' = Append(get_input_calls, arg)
              /\ IF ~gi.ok
                 THEN /\ pc' = "err"
                      /\ tmp_count' = gi.tmp
                      /\ UNCHANGED <<idx, inputs_root, inputs_flac, input_map_roots,
                                     input_map_flacs, search_input_calls>>
                 ELSE /\ search_input_calls' = Append(search_input_calls, <<input, gi.path>>)
                      /\ tmp_count' = si.tmp
                      /\ IF ~si.ok
                         THEN /\ pc' = "err"
                              /\ UNCHANGED <<idx, inputs_root, inputs_flac,
                                             input_map_roots, input_map_flacs>>
                         ELSE /\ input_map_roots' = MapInsert(input_map_roots, Track(idx), gi.path)
                              /\ input_map_flacs' = MapInsert(input_map_flacs, Track(idx), si.path)
                              /\ inputs_root' = MapInsert(inputs_root, input, gi.path)
                              /\ inputs_flac' = MapInsert(inputs_flac, input, si.path)
                              /\ idx' = idx + 1
                              /\ UNCHANGED pc
    /\ UNCHANGED <<tags, parseVars, fnVars, source_map, coverVars, planVars, poolVars>>
    /\ work_dir_removals' = ScopeExit(work_dir_removals, pc')

ResolveDone ==
    /\ pc = "resolve"
    /\ idx > Len(tags)
    /\ pc' = "map"
    /\ idx' = 1
    /\ UNCHANGED <<tags, parseVars, fnVars, resolveVars, source_map, coverVars, planVars, poolVars>>
    /\ work_dir_removals' = ScopeExit(work_dir_removals, pc')

\* Map input tracks: get_track in the tag's container.
MapTrack ==
    /\ pc = "map"
    /\ idx <= Len(tags)
    /\ \E r \in get_track(Track(idx), input_map_flacs[Track(idx)]) :
          IF r.ok
          THEN /\ source_map' = MapInsert(source_map, Track(idx), r.path)
               /\ idx' = idx + 1
               /\ UNCHANGED pc
          ELSE /\ pc' = IF r.panic THEN "panic" ELSE "err"
               /\ UNCHANGED <<idx, source_map>>
    /\ UNCHANGED <<tags, parseVars, fnVars, resolveVars, coverVars, planVars, poolVars>>
    /\ work_dir_removals' = ScopeExit(work_dir_removals, pc')

\* The end of Map input tracks going straight on to Padding.
MapDone_nocovers ==
    /\ pc = "map"
    /\ idx > Len(tags)
    /\ pc' = "padding"
    /\ idx' = 1
    /\ UNCHANGED <<tags, parseVars, fnVars, resolveVars, source_map, coverVars, planVars, poolVars>>
    /\ work_dir_removals' = ScopeExit(work_dir_removals, pc')

MapDone ==
    /\ pc = "map"
    /\ idx > Len(tags)
    /\ pc' = "covers"
    /\ idx' = 1
    /\ UNCHANGED <<tags, parseVars, fnVars, resolveVars, source_map, coverVars, planVars, poolVars>>
    /\ work_dir_removals' = ScopeExit(work_dir_removals, pc')

\* Locate covers: a tag without cover.
CoverNone ==
    /\ pc = "covers"
    /\ idx <= Len(tags)
    /\ tags[idx].cover = None
    /\ idx' = idx + 1
    /\ UNCHANGED <<pc, tags, parseVars, fnVars, resolveVars, source_map, coverVars, planVars, poolVars>>
    /\ work_dir_removals' = ScopeExit(work_dir_removals, pc')

\* Locate covers: the cover string was resolved before.
CoverCached ==
    /\ pc = "covers"
    /\ idx <= Len(tags)
    /\ tags[idx].cover # None
    /\ MapGet(covers, tags[idx].cover[1]) # None
    /\ cover_map' = MapInsert(cover_map, Track(idx), MapGet(covers, tags[idx].cover[1])[1])
    /\ idx' = idx + 1
    /\ UNCHANGED <<pc, tags, parseVars, fnVars, resolveVars, source_map, covers, get_cover_calls,
                   planVars, poolVars>>
    /\ work_dir_removals' = ScopeExit(work_dir_removals, pc')

\* Locate covers: get_cover on the cover under the tag's input root.
CoverOpen ==
    /\ pc = "covers"
    /\ idx <= Len(tags)
    /\ tags[idx].cover # None
    /\ MapGet(covers, tags[idx].cover[1]) = None
    /\ LET cover == tags[idx].cover[1]
           arg == input_map_roots[Track(idx)] \o <<cover>>
       IN  \E r \in get_cover(arg, tmp_count) :
              /\ get_cover_calls' = Append(get_cover_calls, <<cover, arg>>)
              /\ tmp_count' = r.tmp
              /\ IF r.end = "ok"
                 THEN /\ cover_map' = MapInsert(cover_map, Track(idx), r.path)
                      /\ covers' = MapInsert(covers, cover, r.path)
                      /\ idx' = idx + 1
                      /\ UNCHANGED pc
                 ELSE /\ pc' = r.end
                      /\ UNCHANGED <<idx, cover_map, covers>>
    /\ UNCHANGED <<tags, parseVars, fnVars, inputs_root, inputs_flac, input_map_roots,
                   input_map_flacs, get_input_calls, search_input_calls, source_map,
                   planVars, poolVars>>
    /\ work_dir_removals' = ScopeExit(work_dir_removals, pc')

CoversDone ==
    /\ pc = "covers"
    /\ idx > Len(tags)
    /\ pc' = "padding"
    /\ idx' = 1
    /\ UNCHANGED <<tags, parseVars, fnVars, resolveVars, source_map, coverVars, planVars, poolVars>>
    /\ work_dir_removals' = ScopeExit(work_dir_removals, pc')

\* A Padding step that goes on with a width of 1 when there is no tag.
Padding_nopanic ==
    /\ pc = "padding"
    /\ pc' = "album"
    /\ padding' = IF tags = <<>> THEN 1 ELSE PaddingOf(tags)
    /\ UNCHANGED <<tags, parseVars, fnVars, idx, resolveVars, source_map, coverVars,
                   album_path, discs, created_dirs, poolVars>>
    /\ work_dir_removals' = ScopeExit(work_dir_removals, pc')

\* Padding: max() of no track number is None, and unwrap() panics.
Padding ==
    /\ pc = "padding"
    /\ IF tags = <<>>
       THEN pc' = "panic" /\ UNCHANGED padding
       ELSE pc' = "album" /\ padding' = PaddingOf(tags)
    /\ UNCHANGED <<tags, parseVars, fnVars, idx, resolveVars, source_map, coverVars,
                   album_path, discs, created_dirs, poolVars>>
    /\ work_dir_removals' = ScopeExit(work_dir_removals, pc')

\* Create album directory: todo!() when no tag has an album.
CreateAlbumDir ==
    /\ pc = "album"
    /\ IF AlbumNames(tags) = {}
       THEN pc' = "panic" /\ UNCHANGED <<album_path, created_dirs>>
       ELSE \E album \in AlbumNames(tags), made \in BOOLEAN :
               /\ album_path' = << <<"out">>, ReplaceSlash(album) >>
               /\ IF made
                  THEN pc' = "discs" /\ created_dirs' = Append(created_dirs, album_path')
                  ELSE pc' = "err" /\ UNCHANGED created_dirs
    /\ UNCHANGED <<tags, parseVars, fnVars, idx, resolveVars, source_map, coverVars,
                   padding, discs, poolVars>>
    /\ work_dir_removals' = ScopeExit(work_dir_removals, pc')

\* Create album directory: the loop over the tags' disc numbers.
CreateDiscDir ==
    /\ pc = "discs"
    /\ idx <= Len(tags)
    /\ IF tags[idx].disc = None \/ Contains(discs, tags[idx].disc[1])
       THEN idx' = idx + 1 /\ UNCHANGED <<pc, discs, created_dirs>>
       ELSE \E made \in BOOLEAN :
               IF made
               THEN /\ created_dirs' =
                        Append(created_dirs,
                               album_path \o << <<"Disc", " ">> \o Decimal(tags[idx].disc[1]) >>)
                    /\ discs' = Append(discs, tags[idx].disc[1])
                    /\ idx' = idx + 1
                    /\ UNCHANGED pc
               ELSE pc' = "err" /\ UNCHANGED <<idx, discs, created_dirs>>
    /\ UNCHANGED <<tags, parseVars, fnVars, resolveVars, source_map, coverVars,
                   padding, album_path, poolVars>>
    /\ work_dir_removals' = ScopeExit(work_dir_removals, pc')

DiscsDone ==
    /\ pc = "discs"
    /\ idx > Len(tags)
    /\ pc' = "recompress"
    /\ UNCHANGED <<tags, parseVars, fnVars, runVars>>
    /\ work_dir_removals' = ScopeExit(work_dir_removals, pc')

\* Recompress: the pool is set up.
StartRecompress ==
    /\ pc = "recompress"
    /\ \E cnt \in 1..MaxUnits :
          /\ process_cnt' = cnt
          /\ fill_left' = FillCount(Len(tags), cnt)
    /\ process_next' = tags
    /\ pc' = "pool"
    /\ UNCHANGED <<tags, parseVars, fnVars, idx, resolveVars, source_map, coverVars, planVars,
                   process_working, out_paths, launched, waited, replay_gain_calls>>
    /\ work_dir_removals' = ScopeExit(work_dir_removals, pc')

\* The front of process_next is popped and recompress is called on it: the
\* child is pushed and its output path recorded, or a spawn failed.
Launch(spawned, next_pc) ==
    LET p == PopFront(process_next)
        out_path == album_path \o output_path(p.job, padding)
    IN  /\ process_next' = p.rest
        /\ IF spawned
           THEN /\ process_working' = Append(process_working, [track |-> p.job.track[1]])
                /\ out_paths' = Append(out_paths, out_path)
                /\ launched' = Append(launched, p.job.track[1])
                /\ pc' = next_pc
           ELSE /\ pc' = "err"
                /\ UNCHANGED <<process_working, out_paths, launched>>

\* The front of process_working is popped and waited on.
Wait(status) ==
    LET p == PopFront(process_working)
    IN  /\ process_working' = p.rest
        /\ waited' = Append(waited, [track |-> p.job.track,
                                     decode_ok |-> status.decode_ok,
                                     encode |-> status.encode])
        /\ pc' = AfterWait(status)

\* The for loop that fills the pool without waiting.
FillLaunch ==
    /\ pc = "pool"
    /\ fill_left > 0
    /\ \E spawned \in BOOLEAN : Launch(spawned, "pool")
    /\ fill_left' = fill_left - 1
    /\ UNCHANGED <<tags, parseVars, fnVars, idx, resolveVars, source_map, coverVars, planVars,
                   process_cnt, waited, replay_gain_calls>>
    /\ work_dir_removals' = ScopeExit(work_dir_removals, pc')

\* The while loop, first half: the next job is launched.
LoopLaunch ==
    /\ pc = "pool"
    /\ fill_left = 0
    /\ process_next # <<>>
    /\ \E spawned \in BOOLEAN : Launch(spawned, "wait")
    /\ UNCHANGED <<tags, parseVars, fnVars, idx, resolveVars, source_map, coverVars, planVars,
                   process_cnt, fill_left, waited, replay_gain_calls>>
    /\ work_dir_removals' = ScopeExit(work_dir_removals, pc')

\* The while loop, second half: the oldest job is waited on.
LoopWait ==
    /\ pc = "wait"
    /\ \E status \in ExitStatuses : Wait(status)
    /\ UNCHANGED <<tags, parseVars, fnVars, idx, resolveVars, source_map, coverVars, planVars,
                   process_cnt, fill_left, process_next, out_paths, launched,
                   replay_gain_calls>>
    /\ work_dir_removals' = ScopeExit(work_dir_removals, pc')

\* A last loop that drops the jobs still in the pool without waiting.
Drain_forget ==
    /\ pc = "pool"
    /\ fill_left = 0
    /\ process_next = <<>>
    /\ process_working # <<>>
    /\ process_working' = <<>>
    /\ UNCHANGED <<pc, tags, parseVars, fnVars, idx, resolveVars, source_map, coverVars,
                   planVars, process_cnt, fill_left, process_next, out_paths, launched,
                   waited, replay_gain_calls>>
    /\ work_dir_removals' = ScopeExit(work_dir_removals, pc')

\* The last loop: the jobs still in the pool are waited on, oldest first.
Drain ==
    /\ pc = "pool"
    /\ fill_left = 0
    /\ process_next = <<>>
    /\ process_working # <<>>
    /\ \E status \in ExitStatuses : Wait(status)
    /\ UNCHANGED <<tags, parseVars, fnVars, idx, resolveVars, source_map, coverVars, planVars,
                   process_cnt, fill_left, process_next, out_paths, launched,
                   replay_gain_calls>>
    /\ work_dir_removals' = ScopeExit(work_dir_removals, pc')

\* The last loop left out.
PoolDrained_nodrain == fill_left = 0 /\ process_next = <<>>

\* Both loops are over.
PoolDrained == fill_left = 0 /\ process_next = <<>> /\ process_working = <<>>

\* Add ReplayGain: metaflac on the output paths; todo!() when it exits
\* unsuccessfully, Err when it cannot be run.
AddReplayGain ==
    /\ pc = "pool"
    /\ PoolDrained
    /\ replay_gain_calls' = Append(replay_gain_calls, out_paths)
    /\ pc' \in {"ok", "panic", "err"}
    /\ UNCHANGED <<tags, parseVars, fnVars, idx, resolveVars, source_map, coverVars, planVars,
                   process_cnt, fill_left, process_next, process_working, out_paths,
                   launched, waited>>
    /\ work_dir_removals' = ScopeExit(work_dir_removals, pc')

NextRun ==
    \/ ResolveMissingInput \/ ResolveCached \/ ResolveOpen \/ ResolveDone
    \/ MapTrack \/ MapDone
    \/ CoverNone \/ CoverCached \/ CoverOpen \/ CoversDone
    \/ Padding \/ CreateAlbumDir \/ CreateDiscDir \/ DiscsDone
    \/ StartRecompress \/ FillLaunch \/ LoopLaunch \/ LoopWait \/ Drain
    \/ AddReplayGain

SpecRun == InitRun /\ [][NextRun]_vars

\* run() is sequential code that goes on as long as it has a next step, and
\* a wait() returns once the child has exited.
SpecRunFair == InitRun /\ [][NextRun]_vars /\ WF_vars(NextRun)

---------------------------------------------------------------------------
(* The pure functions, each called on its own on arguments drawn from a    *)
(* bounded set.                                                            *)

\* The tags Tag::output_path is called on: records of the parser, which have
\* their track set.
PathTexts(first, second) == {None, Some(first), Some(second)}

PathTags ==
    {[Tag_new EXCEPT !.track = Some(n), !.disc = d, !.artist = a, !.title = ti] :
        <<n, d, a, ti>> \in
            {1, 3, 12} \X {None, Some(2)}
              \X PathTexts(<<"F", "o", "o">>, <<"a", "/", "b">>)
              \X PathTexts(<<"B", "a", "r">>, <<"/", "c">>)}

OutputPathCalls ==
    {[fn |-> "output_path", args |-> <<tg, pad>>] : tg \in PathTags, pad \in 1..MaxPadding}

\* The metadata files parse_trackinfo is called on: up to MaxLines lines,
\* global ones and bracketed ones.
FileLines ==
    { Render("TITLE", None, <<"a">>), Render("TITLE", None, <<"b">>),
      Render("DISC", None, <<"1">>), Render("INPUT", None, <<"a">>),
      Render("INPUT", Some(<<"1">>), <<"b">>), Render("INPUT", Some(<<"2">>), <<"b">>),
      Render("TITLE", Some(<<"1">>), <<"a">>) }

Files == UNION {[1..n -> FileLines] : n \in 0..MaxLines}

ParseCalls == {[fn |-> "parse_trackinfo", args |-> <<f>>] : f \in Files}

\* The file names of the containers get_track is called on.
EntryNames ==
    { <<"0", "2", " ", "-", " ", "S", "o", "n", "g", ".", "flac">>,
      <<"m", "i", "s", "c", ".", "flac">>,
      <<"a", "2", "b", "9", ".", "flac">>,
      <<"9", ".", "m", "p", "3">>,
      <<"1", "2", "3", "4", "5", "6", "7", "8", "9", "0", "1", "2", "3", "4", "5",
        "6", "7", "8", "9", "0", "1", ".", "flac">> }

GetTrackCalls ==
    {[fn |-> "get_track", args |-> <<track, << <<"in">> >>, entries>>] :
        track \in {2, 9}, entries \in UNION {[1..n -> EntryNames] : n \in 0..MaxEntries}}

\* The directories search_input is called on: up to MaxEntries entries,
\* files, directories and archives, the latter two with a listing of their
\* own that goes one level further down at most.
Listings ==
    { <<>>, <<FlacFile>>, <<OtherFile>>, <<Archive(FALSE, <<>>)>>,
      <<Archive(TRUE, <<FlacFile>>)>>, <<Directory(<<FlacFile>>)>> }

RootEntries ==
    {FlacFile, OtherFile, Archive(FALSE, <<>>)}
        \cup {Directory(es) : es \in Listings}
        \cup {Archive(TRUE, es) : es \in Listings}

SearchInputCalls ==
    {[fn |-> "search_input", args |-> << << <<"root">> >>, entries >>] :
        entries \in UNION {[1..n -> RootEntries] : n \in 0..MaxEntries}}

Calls == OutputPathCalls \cup ParseCalls \cup GetTrackCalls \cup SearchInputCalls

InitFn ==
    /\ pc = "call"
    /\ call \in Calls
    /\ returned = <<>>
    /\ tags = <<>>
    /\ palette = {}
    /\ line = <<>>
    /\ nread = 0
    /\ global_tag = Tag_new
    /\ mentioned = <<>>
    /\ RunIdle

\* tag.output_path(padding).
CallOutputPath ==
    /\ pc = "call"
    /\ call.fn = "output_path"
    /\ returned' = output_path(call.args[1], call.args[2])
    /\ pc' = "returned"
    /\ UNCHANGED <<call, tags, parseVars, runVars, work_dir_removals>>

\* parse_trackinfo(path) on the file behind the path.
CallParseTrackinfo ==
    /\ pc = "call"
    /\ call.fn = "parse_trackinfo"
    /\ LET r == parse_trackinfo(call.args[1])
       IN  /\ returned' = r.tags
           /\ pc' = IF r.err THEN "invalid_trackinfo" ELSE "returned"
    /\ UNCHANGED <<call, tags, parseVars, runVars, work_dir_removals>>

\* get_track(track, path) on a container that lists the given entries.
CallGetTrack ==
    /\ pc = "call"
    /\ call.fn = "get_track"
    /\ LET r == ScanEntries(call.args[1], call.args[2], call.args[3])
       IN  /\ returned' = r.path
           /\ pc' = IF r.ok THEN "returned" ELSE IF r.panic THEN "panic" ELSE "err"
    /\ UNCHANGED <<call, tags, parseVars, runVars, work_dir_removals>>

\* search_input(path, tmp_dir) on a directory that lists the given entries,
\* with a tmp_dir nothing was created in yet.
CallSearchInput ==
    /\ pc = "call"
    /\ call.fn = "search_input"
    /\ returned' = SearchInput(call.args[1], call.args[2],
                               [tmp |-> 0, extract_calls |-> <<>>])
    /\ pc' = IF returned'.end = "ok" THEN "returned" ELSE "err"
    /\ UNCHANGED <<call, tags, parseVars, runVars, work_dir_removals>>

NextFn == CallOutputPath \/ CallParseTrackinfo \/ CallGetTrack \/ CallSearchInput

SpecFn == InitFn /\ [][NextFn]_vars

---------------------------------------------------------------------------
(* Properties of parse_trackinfo.                                          *)

\* The loop body has just processed line' and accepted it.
LineAccepted == pc = "parse" /\ pc' = "parse" /\ nread' = nread + 1

TrackNumbers(ts) == [i \in 1..Len(ts) |-> ts[i].track]

\* C1: snapshot merge.  A record pushed by a bracketed line equals the running
\* default of that moment in every field but `track` and the line's own field,
\* and leaves the records before it as they were; the running default changes
\* only on unbracketed lines, by the one field the line names; an unbracketed
\* line changes no record.
C1_SnapshotMerge ==
    [][LineAccepted =>
        LET caps == Captured[line']
        IN  /\ BracketIndex(caps) = None => tags' = tags
            /\ (caps.matched /\ BracketIndex(caps) = None) =>
                    /\ global_tag'[FieldKey(caps.field)] = Some(StoredValue(caps))
                    /\ \A k \in TagKeys \ {FieldKey(caps.field)} :
                            global_tag'[k] = global_tag[k]
            /\ BracketIndex(caps) # None =>
                    /\ global_tag' = global_tag
                    /\ Len(tags') > Len(tags) =>
                            /\ Len(tags') = Len(tags) + 1
                            /\ SubSeq(tags', 1, Len(tags)) = tags
                            /\ \A k \in TagKeys \ {"track", FieldKey(caps.field)} :
                                    tags'[Len(tags')][k] = global_tag[k]
      ]_vars

\* C1 witness: TITLE=a, a line creating one record, TITLE=b, a line creating
\* a second record: the first record keeps title a, the second has title b.
C1_Witness ==
    /\ pc = "parse"
    /\ nread = 4
    /\ Len(tags) = 2
    /\ BracketIndex(Captured[line]) # None
    /\ tags[1].title = Some(<<"a">>)
    /\ tags[2].title = Some(<<"b">>)
    /\ global_tag.title = Some(<<"b">>)
    /\ \E k \in TagKeys \ {"title", "track"} :
            tags[1][k] # None /\ tags[2][k] # None /\ global_tag[k] = None

\* C2 as claimed: at most one record per track number, every record has its
\* track set, and the records stand in the order in which their track numbers
\* were first mentioned by a bracketed line.
C2_OnePerTrackInMentionOrder ==
    pc \in {"parse", "parsed"} =>
        /\ \A i \in 1..Len(tags) : tags[i].track # None
        /\ \A i, j \in 1..Len(tags) : i # j => tags[i].track # tags[j].track
        /\ TrackNumbers(tags) = [i \in 1..Len(mentioned) |-> Some(mentioned[i])]

\* C3 as claimed: a bracketed line FIELD[N]=value leaves a record with track
\* number N whose FIELD is the parsed value, changes no record with another
\* track number and creates none.
C3_BracketIndexIsTheTrack ==
    [][(LineAccepted /\ BracketIndex(Captured[line']) # None) =>
        LET caps == Captured[line']
            N == BracketIndex(caps)[1]
        IN  /\ \E i \in 1..Len(tags') :
                    /\ tags'[i].track = Some(N)
                    /\ tags'[i][FieldKey(caps.field)] = Some(StoredValue(caps))
            /\ \A i \in 1..Len(tags) : tags[i].track # Some(N) => tags'[i] = tags[i]
            /\ \A i \in 1..Len(tags') : i > Len(tags) => tags'[i].track = Some(N)
      ]_vars

\* C4 as claimed: a bracketed line whose track N already has a record changes
\* that record's targeted field and nothing else: not another field, not
\* another record, not the length or order of the list, not the running default.
C4_OnlyTargetedFieldOverwritten ==
    [][(/\ LineAccepted
        /\ BracketIndex(Captured[line']) # None
        /\ FindTag(tags, BracketIndex(Captured[line'])[1]) # 0) =>
        LET caps == Captured[line']
            j == FindTag(tags, BracketIndex(caps)[1])
        IN  /\ Len(tags') = Len(tags)
            /\ global_tag' = global_tag
            /\ \A i \in 1..Len(tags) : i # j => tags'[i] = tags[i]
            /\ \A k \in TagKeys \ {FieldKey(caps.field)} : tags'[j][k] = tags[j][k]
            /\ tags'[j][FieldKey(caps.field)] = Some(StoredValue(caps))
      ]_vars

\* The text s is a run of one or more decimal digits.
AllDigits(s) == s # <<>> /\ \A i \in 1..Len(s) : IsDigit(s[i])

\* The text v is a value the grammar allows for field F.
ValueAllowed(F, v) ==
    CASE F = "DISC" -> AllDigits(v)
      [] F = "DATE" ->
            /\ Len(v) = 10
            /\ v[5] = "-" /\ v[8] = "-"
            /\ \A i \in {1, 2, 3, 4, 6, 7, 9, 10} : IsDigit(v[i])
      [] OTHER -> TRUE

\* The line s is, as a whole, FIELD=value or FIELD[N]=value.
WellFormed(s) ==
    /\ Len(s) >= 2
    /\ s[1] \in FieldNames
    /\ \/ s[2] = "=" /\ ValueAllowed(s[1], SubSeq(s, 3, Len(s)))
       \/ /\ s[2] = "["
          /\ \E j \in 4..(Len(s) - 1) :
                /\ AllDigits(SubSeq(s, 3, j - 1))
                /\ s[j] = "]"
                /\ s[j + 1] = "="
                /\ ValueAllowed(s[1], SubSeq(s, j + 2, Len(s)))

\* C15 as claimed: a non-empty line that is not as a whole of the form
\* FIELD=value or FIELD[N]=value makes parse_trackinfo fail with
\* InvalidTrackinfo and return no records.
C15_MalformedLineRejected ==
    [][(pc = "parse" /\ nread' = nread + 1 /\ line' # <<>> /\ ~WellFormed(line')) =>
            (pc' = "invalid_trackinfo" /\ tags' = <<>>)
      ]_vars

\* The fields that hold free text.
TextKeys == TagKeys \ {"track", "disc", "date"}

\* The text v neither begins nor ends with whitespace.
NoOuterWhite(v) == v = <<>> \/ (~IsWhite(v[1]) /\ ~IsWhite(v[Len(v)]))

\* C16 as claimed: no free-text value stored in the running default or in a
\* record begins or ends with whitespace.
C16_StoredTextIsTrimmed ==
    \A k \in TextKeys :
        /\ global_tag[k] # None => NoOuterWhite(global_tag[k][1])
        /\ \A i \in 1..Len(tags) : tags[i][k] # None => NoOuterWhite(tags[i][k][1])

---------------------------------------------------------------------------
(* Properties of run().                                                    *)

\* C5: input memoization.  No input string is passed to get_input twice, none
\* has search_input called for it twice, and two tags with the same input
\* string get the same root and the same track container.
C5_InputMemoized ==
    /\ \A i, j \in 1..Len(get_input_calls) :
            get_input_calls[i] = get_input_calls[j] => i = j
    /\ \A i, j \in 1..Len(search_input_calls) :
            search_input_calls[i][1] = search_input_calls[j][1] => i = j
    /\ \A i, j \in 1..Len(tags) :
            (/\ Track(i) \in DOMAIN input_map_roots
             /\ Track(j) \in DOMAIN input_map_roots
             /\ tags[i].input = tags[j].input) =>
                /\ input_map_roots[Track(i)] = input_map_roots[Track(j)]
                /\ input_map_flacs[Track(i)] = input_map_flacs[Track(j)]

\* C5 witness: the inputs are resolved, two tags share an input string that
\* was extracted into the work directory, and get_input ran once.
C5_Witness ==
    /\ pc = "map"
    /\ Len(get_input_calls) = 1
    /\ \E i, j \in 1..Len(tags) :
            /\ i # j
            /\ tags[i].input = tags[j].input
            /\ input_map_roots[Track(i)][1] = <<"tmp">>
            /\ input_map_flacs[Track(j)] # input_map_roots[Track(j)]

\* The jobs launched and not yet waited on.
InFlight == Len(launched) - Len(waited)

\* C6: the jobs launched and not yet waited on, which are the children in
\* process_working, number at most min(total tracks, process_cnt).
C6_InFlightBounded ==
    process_cnt > 0 =>
        /\ InFlight = Len(process_working)
        /\ InFlight <= Min(Len(tags), process_cnt)

\* C6 witness: more tracks than units, and the pool is full.
C6_Witness ==
    /\ pc = "wait"
    /\ process_cnt >= 2
    /\ Len(tags) > process_cnt
    /\ InFlight = process_cnt

\* C7: the jobs launched so far are the first tags of the parsed list, in
\* that order, and no track is launched twice.
C7_LaunchedInParseOrder ==
    /\ Len(launched) <= Len(tags)
    /\ \A k \in 1..Len(launched) : launched[k] = Track(k)
    /\ \A a, b \in 1..Len(launched) : launched[a] = launched[b] => a = b

\* C7 witness: three tags parsed in descending track order, all launched.
C7_Witness ==
    /\ Len(tags) >= 3
    /\ Track(1) > Track(2)
    /\ Len(launched) = Len(tags)

\* C8 as claimed: a job whose decode process or encode process exited
\* unsuccessfully aborts the run: add_replay_gain is never called and the run
\* does not end in success.
C8_FailFastOnEitherProcess ==
    \A k \in 1..Len(waited) :
        (~waited[k].decode_ok \/ waited[k].encode = "failure") =>
            (replay_gain_calls = <<>> /\ pc # "ok")

\* The control thread has waited on a job that exited unsuccessfully.
FailureObserved == \E k \in 1..Len(waited) : waited[k].encode = "failure"

\* C9: once a wait has returned an unsuccessful exit status, no job is
\* launched, no job is waited on and add_replay_gain is not called.
C9_NothingAfterObservedFailure ==
    [][FailureObserved =>
        /\ launched' = launched
        /\ waited' = waited
        /\ replay_gain_calls' = replay_gain_calls
        /\ process_next' = process_next
        /\ process_working' = process_working
      ]_vars

\* C9 witness: a wait failed while a tag was still pending and another job
\* was still in the pool.
C9_Witness ==
    /\ FailureObserved
    /\ process_next # <<>>
    /\ process_working # <<>>

\* C10: add_replay_gain is called at most once, exactly once in a run that
\* ends in success, and when it is called every tag has been launched, every
\* launched job has been waited on with a successful status, in launch order,
\* and the argument is the list of the tags' output paths in parse order.
C10_ReplayGainOnceAfterAllJobs ==
    /\ Len(replay_gain_calls) <= 1
    /\ pc = "ok" => Len(replay_gain_calls) = 1
    /\ replay_gain_calls # <<>> =>
            /\ Len(launched) = Len(tags)
            /\ process_working = <<>>
            /\ Len(waited) = Len(launched)
            /\ \A k \in 1..Len(waited) :
                    waited[k].encode = "success" /\ waited[k].track = launched[k]
            /\ replay_gain_calls[1] =
                    [i \in 1..Len(tags) |-> album_path \o output_path(tags[i], padding)]

\* C10 witness: a run of several tags that ended in success.
C10_Witness ==
    /\ pc = "ok"
    /\ Len(tags) >= 2
    /\ Len(replay_gain_calls[1]) = Len(tags)

\* The run has ended on an error the program detected: an Err returned to
\* main, the exit of get_cover, or one of the todo!() of run (the only panic
\* of a run that has tags).
DetectedError ==
    \/ pc \in {"err", "exit1", "invalid_trackinfo"}
    \/ pc = "panic" /\ tags # <<>>

\* C11 as claimed: every error the program detects ends the process with
\* exit status 1.
C11_DetectedErrorsExitWithStatusOne == DetectedError => exit_status(pc) = 1

\* The run has ended after work_dir was created.
RunEnded == pc \in {"ok", "err", "panic", "exit1"}

\* C12 as claimed: on every way a run ends after work_dir was created, a
\* failed picture export included, work_dir has been removed exactly once.
C12_ScratchRemovedExactlyOnce == RunEnded => work_dir_removals = 1

\* C17: cover memoization.  No cover string has get_cover called for it
\* twice, and two tags with the same cover string get the same image path.
C17_CoverMemoized ==
    /\ \A i, j \in 1..Len(get_cover_calls) :
            get_cover_calls[i][1] = get_cover_calls[j][1] => i = j
    /\ \A i, j \in 1..Len(tags) :
            (/\ Track(i) \in DOMAIN cover_map
             /\ Track(j) \in DOMAIN cover_map
             /\ tags[i].cover = tags[j].cover) =>
                cover_map[Track(i)] = cover_map[Track(j)]

\* C17 witness: the covers are located, three tags carry two cover strings,
\* and get_cover ran twice.
C17_Witness ==
    /\ pc = "padding"
    /\ Len(tags) = 3
    /\ Len(get_cover_calls) = 2
    /\ \E i, j \in 1..Len(tags) :
            /\ i # j
            /\ tags[i].cover = tags[j].cover
            /\ Track(i) \in DOMAIN cover_map
            /\ Track(j) \in DOMAIN cover_map

\* The number of tags whose album is a.
Occurrences(a) == Cardinality({i \in 1..Len(tags) : tags[i].album = <<a>>})

\* The tags that define an album.
WithAlbum == {i \in 1..Len(tags) : tags[i].album # <<>>}

\* C18: the album directory is named after an album value that occurs at
\* least as often as every other one; when no tag defines an album the run
\* panics at the album step, before any directory is created or job launched.
C18_AlbumByFrequency ==
    /\ album_path # <<>> =>
            \E i \in WithAlbum :
                /\ album_path = << <<"out">>,
                                   [n \in 1..Len(tags[i].album[1]) |->
                                       IF tags[i].album[1][n] = "/" THEN "_"
                                       ELSE tags[i].album[1][n]] >>
                /\ \A j \in WithAlbum :
                        Occurrences(tags[j].album[1]) <= Occurrences(tags[i].album[1])
    /\ WithAlbum = {} =>
            /\ album_path = <<>>
            /\ created_dirs = <<>>
            /\ launched = <<>>
            /\ pc \in {"resolve", "map", "covers", "padding", "album",
                       "panic", "err", "exit1"}

\* C18 witness: the album a once and the album b twice, and the directory
\* of b created.
C18_Witness ==
    /\ Occurrences(<<"a">>) = 1
    /\ Occurrences(<<"b">>) = 2
    /\ created_dirs = << << <<"out">>, <<"b">> >> >>

\* The distinct disc numbers of the first n tags, in first-seen order.
RECURSIVE FirstSeenDiscs(_)
FirstSeenDiscs(n) ==
    IF n = 0 THEN <<>>
    ELSE LET seen == FirstSeenDiscs(n - 1)
         IN  IF tags[n].disc = <<>> \/ \E k \in 1..Len(seen) : seen[k] = tags[n].disc[1]
             THEN seen
             ELSE Append(seen, tags[n].disc[1])

\* The directories of a finished plan: the album directory, then one
\* `Disc {n}` per distinct disc number in first-seen order.
PlannedDirs ==
    <<album_path>> \o
    [k \in 1..Len(FirstSeenDiscs(Len(tags))) |->
        album_path \o << <<"Disc", " ">> \o Decimal(FirstSeenDiscs(Len(tags))[k]) >>]

\* C19: the directories created are, in order, the first of the planned
\* ones, none twice, and all of them once the plan is finished.
C19_DiscDirectoriesOncePerDisc ==
    /\ \A a, b \in 1..Len(created_dirs) : created_dirs[a] = created_dirs[b] => a = b
    /\ created_dirs # <<>> =>
            /\ Len(created_dirs) <= Len(PlannedDirs)
            /\ \A k \in 1..Len(created_dirs) : created_dirs[k] = PlannedDirs[k]
    /\ pc \in {"recompress", "pool", "wait", "ok"} => created_dirs = PlannedDirs

\* C19 witness: three tags on the discs 2 then 1, one of them twice, and
\* both disc directories created, Disc 2 first.
C19_Witness ==
    /\ pc = "recompress"
    /\ Len(tags) = 3
    /\ FirstSeenDiscs(Len(tags)) = <<2, 1>>
    /\ Len(created_dirs) = 3

---------------------------------------------------------------------------
(* Properties of the pure functions.                                       *)

\* The directory prefix of an output path: `Disc {disc}` or nothing.
DiscPrefix(tag) ==
    IF tag.disc = None THEN <<>> ELSE << <<"Disc", " ">> \o Decimal(tag.disc[1]) >>

\* ds with zeros in front up to width digits.
PaddedTo(ds, width) ==
    LET zeros == IF width > Len(ds) THEN width - Len(ds) ELSE 0
    IN  [i \in 1..(zeros + Len(ds)) |-> IF i <= zeros THEN "0" ELSE ds[i - zeros]]

\* The artist/title portion of the name, with `/` replaced by `_`.
NamePortion(tag) ==
    LET text == CASE tag.artist # None /\ tag.title # None ->
                        tag.artist[1] \o <<" ", "-", " ">> \o tag.title[1]
                  [] tag.artist # None /\ tag.title = None -> tag.artist[1]
                  [] tag.artist = None /\ tag.title # None -> tag.title[1]
                  [] OTHER -> <<>>
    IN  [i \in 1..Len(text) |-> IF text[i] = "/" THEN "_" ELSE text[i]]

OutputPathReturned == pc = "returned" /\ call.fn = "output_path"

\* C13 as claimed: the name is the padded track number, `. `, the
\* artist/title portion (nothing when neither is present), then `.flac`.
C13_OutputPathAsClaimed ==
    OutputPathReturned =>
        LET tag == call.args[1]
            pad == call.args[2]
        IN  returned = DiscPrefix(tag) \o
                << PaddedTo(Decimal(tag.track[1]), pad) \o <<".", " ">>
                     \o NamePortion(tag) \o <<".", "flac">> >>

\* C13 amended: the `. ` follows the track number only when an artist or a
\* title is present; with neither, the name is the padded track number
\* followed directly by `.flac`.
C13_OutputPath ==
    OutputPathReturned =>
        LET tag == call.args[1]
            pad == call.args[2]
            sep == IF tag.artist = None /\ tag.title = None THEN <<>> ELSE <<".", " ">>
        IN  returned = DiscPrefix(tag) \o
                << PaddedTo(Decimal(tag.track[1]), pad) \o sep
                     \o NamePortion(tag) \o <<".", "flac">> >>

\* C13 witness: track 3, padding 3, artist Foo, title Bar gave
\* `003. Foo - Bar.flac`.
C13_Witness ==
    /\ OutputPathReturned
    /\ call.args[1].track = Some(3)
    /\ call.args[2] = 3
    /\ returned = << <<"0", "0", "3", ".", " ", "F", "o", "o", " ", "-", " ",
                       "B", "a", "r", ".", "flac">> >>

\* The file of the call, as the parser reads its lines.
FileCaptures == [i \in 1..Len(call.args[1]) |-> Dispatch(call.args[1][i])]

\* The positions of the lines read as bracketed, and as global, lines.
BracketedAt == {i \in DOMAIN FileCaptures : FileCaptures[i].index # None}

GlobalAt == DOMAIN FileCaptures \ BracketedAt

\* parse_trackinfo returned on a file of global lines and one bracketed
\* INPUT[N]=x line.
OneInputFile ==
    /\ pc = "returned"
    /\ call.fn = "parse_trackinfo"
    /\ Cardinality(BracketedAt) = 1
    /\ \A i \in BracketedAt : FileCaptures[i].field = "INPUT"

\* The global lines among the positions ps that set the field of key k.
SettersOf(k, ps) == {i \in ps \cap GlobalAt : FieldKey(FileCaptures[i].field) = k}

FirstDigitRun(name) ==
    LET i == CHOOSE a \in 1..Len(name) :
                 IsDigit(name[a]) /\ \A b \in 1..(a - 1) : ~IsDigit(name[b])
        j == CHOOSE a \in i..Len(name) :
                 /\ \A b \in i..a : IsDigit(name[b])
                 /\ (a = Len(name) \/ ~IsDigit(name[a + 1]))
    IN  SubSeq(name, i, j)

\* The entries of the call that qualify: matching file names whose first
\* run of digits is the number of the track.
Qualifying ==
    {k \in 1..Len(call.args[3]) :
        /\ TRACKFILE_RE(call.args[3][k]) # None
        /\ StripZeros(FirstDigitRun(call.args[3][k])) = Decimal(call.args[1])}

GetTrackEnded == pc \in {"returned", "err", "panic"} /\ call.fn = "get_track"

\* C20 as claimed: get_track returns the first qualifying entry in listing
\* order, and fails with InputTrackNotFound when no entry qualifies.
C20_FirstQualifyingEntry ==
    GetTrackEnded =>
        IF Qualifying = {}
        THEN pc = "err"
        ELSE /\ pc = "returned"
             /\ \E k \in Qualifying :
                    /\ \A j \in Qualifying : k <= j
                    /\ returned = call.args[2] \o <<call.args[3][k]>>

---------------------------------------------------------------------------
(* Properties of search_input.                                             *)

SearchInputEnded == pc \in {"returned", "err"} /\ call.fn = "search_input"

\* The result the stated priority gives for the directory at path: the
\* directory itself when it lists a flac file, else the first success among
\* its directories, else the first success among its archives, else
\* NoFlacFilesFound naming the directory.  FirstSuccess goes through the
\* entries of one kind from entry i on.  An archive whose extractor fails is
\* passed over when skip is TRUE and ends the search of its directory with
\* SubprocessError when skip is FALSE.
RECURSIVE Prioritised(_, _, _, _)
RECURSIVE FirstSuccess(_, _, _, _, _, _)
Prioritised(path, entries, st, skip) ==
    IF \E i \in 1..Len(entries) : entries[i] = FlacFile
    THEN [end |-> "ok", path |-> path, st |-> st]
    ELSE LET d == FirstSuccess(path, entries, 1, st, "dir", skip)
             a == FirstSuccess(path, entries, 1, d.st, "archive", skip)
         IN  IF d.end = "ok" THEN d
             ELSE IF a.end = "none"
                  THEN [end |-> "NoFlacFilesFound", path |-> path, st |-> a.st]
                  ELSE a

FirstSuccess(path, entries, i, st, kind, skip) ==
    IF i > Len(entries) THEN [end |-> "none", path |-> <<>>, st |-> st]
    ELSE IF entries[i].kind # kind
         THEN FirstSuccess(path, entries, i + 1, st, kind, skip)
    ELSE LET scratch == TmpPath(st.tmp + 1)
             st1 == IF kind = "dir" THEN st
                    ELSE [tmp |-> st.tmp + 1,
                          extract_calls |->
                              Append(st.extract_calls,
                                     <<EntryPath(path, i), scratch, entries[i].extracts>>)]
             failed == kind = "archive" /\ ~entries[i].extracts
             r == IF failed
                  THEN [end |-> "SubprocessError", path |-> <<>>, st |-> st1]
                  ELSE Prioritised(IF kind = "dir" THEN EntryPath(path, i) ELSE scratch,
                                   entries[i].entries, st1, skip)
         IN  IF r.end = "ok" \/ (failed /\ ~skip) THEN r
             ELSE FirstSuccess(path, entries, i + 1, r.st, kind, skip)

\* No directory of tmp_dir was handed out twice.
FreshScratch(st) ==
    \A a, b \in 1..Len(st.extract_calls) :
        st.extract_calls[a][2] = st.extract_calls[b][2] => a = b

NoCallsYet == [tmp |-> 0, extract_calls |-> <<>>]

\* C21 as claimed: search_input(root) returns root when root lists a flac
\* file, without extracting anything; otherwise the first successful result
\* among its directories in listing order; otherwise the first successful
\* result among its archives in listing order, each extracted into a fresh
\* scratch directory; otherwise it fails with NoFlacFilesFound naming root.
C21_SearchPriorityAsClaimed ==
    SearchInputEnded =>
        /\ returned = Prioritised(call.args[1], call.args[2], NoCallsYet, TRUE)
        /\ FreshScratch(returned.st)

\* C21 amended: the same priority, where an archive whose extractor fails
\* ends the search of the directory that lists it with SubprocessError: at
\* once for an archive of root, and as an unsuccessful result of the
\* directory or archive searched for one further down.
C21_SearchPriority ==
    SearchInputEnded =>
        /\ returned = Prioritised(call.args[1], call.args[2], NoCallsYet, FALSE)
        /\ FreshScratch(returned.st)
        /\ (\E i \in 1..Len(call.args[2]) : call.args[2][i] = FlacFile) =>
                /\ pc = "returned"
                /\ returned.path = call.args[1]
                /\ returned.st = NoCallsYet

\* C21 witness: root lists no flac file, a directory without one and two
\* archives; the search returns the scratch directory of the second.
C21_Witness ==
    /\ SearchInputEnded
    /\ pc = "returned"
    /\ Len(call.args[2]) = 2
    /\ call.args[2][1].kind = "archive"
    /\ call.args[2][2].kind = "archive"
    /\ Len(returned.st.extract_calls) >= 2
    /\ returned.path = TmpPath(returned.st.tmp)

\* An extract_archive call of the search returned SubprocessError.
ExtractorFailed ==
    \E k \in 1..Len(returned.st.extract_calls) : ~returned.st.extract_calls[k][3]

\* C22 as claimed: when an extract_archive call made during the search
\* fails, in a subdirectory or extracted tree as well as in root, the
\* search ends with SubprocessError and that call is its last one.
C22_ExtractorFailureIsFatal ==
    (SearchInputEnded /\ ExtractorFailed) =>
        /\ pc = "err"
        /\ returned.end = "SubprocessError"
        /\ \A k \in 1..(Len(returned.st.extract_calls) - 1) :
                returned.st.extract_calls[k][3]

---------------------------------------------------------------------------
(* Which field a line sets.                                                *)

\* The position of the `=` that ends the leading FIELD or FIELD[N] of a
\* well-formed line.
LeadingEquals(s) ==
    IF s[2] = "=" THEN 2
    ELSE CHOOSE j \in 5..Len(s) :
            s[j] = "=" /\ s[j - 1] = "]" /\ AllDigits(SubSeq(s, 3, j - 2))

\* The fields the step changed: in the running default, in a record that
\* was there before, or in a pushed record against the running default it
\* is a copy of.  The track of a record is its key, not a field of the line.
ChangedKeys ==
    {k \in TagKeys \ {"track"} :
        \/ global_tag'[k] # global_tag[k]
        \/ \E j \in 1..Len(tags') :
                tags'[j][k] # (IF j <= Len(tags) THEN tags[j] ELSE global_tag)[k]}

\* C23 as claimed: an accepted line F=v or F[N]=v changes no field but F,
\* and for a free-text F the value stored, in the running default or in the
\* record of track N, is v (as it is or trimmed), whatever v contains.
C23_LineSetsItsLeadingField ==
    [][(LineAccepted /\ WellFormed(line')) =>
            LET F == line'[1]
                e == LeadingEquals(line')
                v == SubSeq(line', e + 1, Len(line'))
                stored == {Some(v), Some(Trim(v))}
            IN  /\ ChangedKeys \subseteq {FieldKey(F)}
                /\ F \notin {"DISC", "DATE"} =>
                        IF e = 2
                        THEN global_tag'[FieldKey(F)] \in stored
                        ELSE \E j \in 1..Len(tags') :
                                /\ tags'[j].track =
                                        Some(ParseUsize(SubSeq(line', 3, e - 2)))
                                /\ tags'[j][FieldKey(F)] \in stored
      ]_vars

---------------------------------------------------------------------------
(* The output files of one run.                                            *)

\* The output file planned for the i-th tag.
PlannedPath(i) == album_path \o output_path(tags[i], padding)

\* C24: once the padding is computed, the output paths planned for the
\* tags are pairwise distinct, and so are the paths of the jobs launched.
C24_OutputPathsDistinct ==
    /\ padding > 0 =>
            \A i, j \in 1..Len(tags) : PlannedPath(i) = PlannedPath(j) => i = j
    /\ \A a, b \in 1..Len(out_paths) : out_paths[a] = out_paths[b] => a = b

\* C24 witness: a run that ended in success with the tracks 3 and 12 padded
\* to two digits, track 3 set by two lines of the file.
C24_Witness ==
    /\ pc = "ok"
    /\ padding = 2
    /\ Len(out_paths) = 2
    /\ out_paths[1] = PlannedPath(1)
    /\ out_paths[2] = PlannedPath(2)
    /\ tags[1].artist # None
    /\ tags[1].title # None

---------------------------------------------------------------------------
(* The order of the phases of run().                                       *)

\* The output tree was written to: a directory created or a job launched.
OutputTouched == created_dirs # <<>> \/ launched # <<>>

\* Every tag has its input root and container, its track file, and its
\* cover if it names one.
AllLocated ==
    \A i \in 1..Len(tags) :
        /\ Track(i) \in DOMAIN input_map_roots
        /\ Track(i) \in DOMAIN input_map_flacs
        /\ Track(i) \in DOMAIN source_map
        /\ tags[i].cover # None => Track(i) \in DOMAIN cover_map

\* C25: no directory is created and no job launched before every tag's
\* input, track file and cover are resolved; a run that ends in the phases
\* before has left the output tree untouched.
C25_NothingWrittenBeforeAllLocated ==
    /\ OutputTouched => AllLocated
    /\ pc \in {"resolve", "map", "covers", "padding"} => ~OutputTouched
    /\ (pc \in {"err", "panic", "exit1"} /\ ~AllLocated) => ~OutputTouched

\* C25 witness: the run of several tags, one of them with a cover, created
\* directories and launched every job.
C25_Witness ==
    /\ Len(tags) >= 2
    /\ \E i \in 1..Len(tags) : tags[i].cover # None
    /\ Len(created_dirs) >= 2
    /\ Len(launched) = Len(tags)

---------------------------------------------------------------------------
(* The cover of a track.                                                   *)

\* The cover reference of the i-th tag under the tag's own input root.
OwnCover(i) == input_map_roots[Track(i)] \o <<tags[i].cover[1]>>

\* C26 as claimed: the image of every track with a cover is what get_cover
\* returned for the cover string joined to that track's own input root: the
\* call was made, and the image is that path or a scratch file.
C26_CoverFromOwnInputRoot ==
    \A i \in 1..Len(tags) :
        Track(i) \in DOMAIN cover_map =>
            /\ \E k \in 1..Len(get_cover_calls) : get_cover_calls[k][2] = OwnCover(i)
            /\ \/ cover_map[Track(i)] = OwnCover(i)
               \/ \E n \in 1..tmp_count : cover_map[Track(i)] = TmpPath(n)

---------------------------------------------------------------------------
(* Termination of the scheduler.                                           *)

\* Both loops of Recompress are over.
SchedulerFinished ==
    /\ pc = "pool"
    /\ fill_left = 0
    /\ process_next = <<>>
    /\ process_working = <<>>

\* The run ended in the scheduler: a child could not be spawned or waited
\* on, or exited unsuccessfully.
ChildFailed == pc \in {"panic", "err"}

\* C27: a run that reaches the scheduler gets, unless a child fails, to the
\* end of both loops with the pending queue and the pool empty; there every
\* tag was launched once, in parse order, and every job launched was waited
\* on once, in launch order, and exited successfully.
C27_SchedulerTerminates ==
    /\ (pc = "recompress") ~> (SchedulerFinished \/ ChildFailed)
    /\ [](SchedulerFinished =>
            /\ launched = [i \in 1..Len(tags) |-> Track(i)]
            /\ [k \in 1..Len(waited) |-> waited[k].track] = launched
            /\ \A k \in 1..Len(waited) : waited[k].encode = "success")

\* C27 witness: both loops are over for three tags on two units.
C27_Witness ==
    /\ SchedulerFinished
    /\ Len(tags) = 3
    /\ process_cnt = 2
    /\ replay_gain_calls = <<>>

---------------------------------------------------------------------------
(* The initial fill count.                                                 *)

\* C28: the scheduler is entered with at least one tag and at least one
\* unit, so that min(process_next.len(), process_cnt) - 1 is not negative;
\* a run without tags ends with the panic of the Padding step, before the
\* album directory and the scheduler.
C28_FillCountNeverUnderflows ==
    /\ pc \in {"recompress", "pool", "wait"} => Len(tags) >= 1
    /\ process_cnt > 0 =>
            /\ Min(Len(tags), process_cnt) >= 1
            /\ fill_left \in 0..(Min(Len(tags), process_cnt) - 1)
    /\ tags = <<>> =>
            /\ pc \in {"resolve", "map", "covers", "padding", "panic"}
            /\ padding = 0
            /\ process_cnt = 0

\* C28 witness: a run without tags, ended by the panic.
C28_Witness ==
    /\ tags = <<>>
    /\ pc = "panic"
    /\ work_dir_removals = 1

=============================================================================
